---- MODULE Spec2Model ----
(***************************************************************************)
(* State-machine model of the osmosis-ai logging library:                  *)
(*   src/src/osmosis-cloud.ts  the transport sink and its module state     *)
(*   src/src/index.ts          configuration, library loading, the patched *)
(*                             dispatch methods of the client families     *)
(*   src/src/consts.ts         the built-in default configuration          *)
(* JavaScript values are modelled as strings: booleans of the              *)
(* configuration as "true"/"false", null as "null", a key that a partial   *)
(* configuration does not carry as "absent", a key it carries with the     *)
(* value undefined as "undefined".  A text is the sequence of its pieces,  *)
(* so the empty text is <<>> and concatenation is \o.                      *)
(***************************************************************************)
EXTENDS Integers, Sequences, FiniteSets, TLC

\* ------------------------------------------------------------ bounds
MaxLoaders == 1        \* loadLibraries() runs suspended at an import at once
MaxPendingInit == 1    \* OsmosisCloud.init() calls suspended at xxhash() at once
MaxChunks == 2         \* chunks a consumer takes from one stream
MaxSends == 2          \* direct sendToOsmosis() calls observed together
MaxIterations == 1     \* times a consumer iterates one wrapping stream again

\* ------------------------------------------------------------ values
Null == "null"
Absent == "absent"
Undefined == "undefined"
JsTrue == "true"
JsFalse == "false"

Truthy(v) == v \notin {JsFalse, Null, Absent, Undefined, ""}

StatusOK == 200
StatusError == 500

Dests == {"console", "cloud", "both"}
Libs == {"openai", "anthropic", "langchainOpenai", "langchainAnthropic"}
LibOrder == <<"openai", "anthropic", "langchainOpenai", "langchainAnthropic">>
ApiKeys == {"k1"}

\* Generated ids without the prefix.
GenIdsBare == <<"1", "2", "3", "4", "5", "6">>

\* The correlation ids sendToOsmosis generates (`req_${Date.now()}_${random}`),
\* in the order it generates them: each differs from the ones before it.
GenIds == <<"req_1", "req_2", "req_3", "req_4", "req_5", "req_6">>

\* The patched dispatch methods, and the library each belongs to.
RequestFamilies == {"openaiRequest", "anthropicRequest"}
GenerateFamilies == {"langchainOpenaiGenerate", "langchainAnthropicGenerate"}
Families == RequestFamilies \cup GenerateFamilies \cup {"openaiCreate", "openaiStream"}

LibOf(fam) ==
  CASE fam \in {"openaiRequest", "openaiCreate", "openaiStream"} -> "openai"
    [] fam = "anthropicRequest" -> "anthropic"
    [] fam = "langchainOpenaiGenerate" -> "langchainOpenai"
    [] fam = "langchainAnthropicGenerate" -> "langchainAnthropic"

\* The configuration's cloudApiKey is written by configure() and read only to
\* print it masked, so the configuration is modelled without it.
defaultConfig ==
  [enabled |-> JsTrue,
   logDestination |-> "cloud",
   enabledAPIs |-> [l \in Libs |-> JsTrue]]

\* What a stream chunk carries: its choices, each with the text of its delta
\* (<<>> for a delta without content, or with the empty string).
Chunks ==
  { [choices |-> <<>>],
    [choices |-> << [content |-> <<>>] >>],
    [choices |-> << [content |-> <<"Hello">>] >>],
    [choices |-> << [content |-> <<" world">>] >>] }

\* The library installations the model starts from: which packages resolve,
\* whether OpenAI.prototype.chat.completions exists, whether the instance's
\* create carries a stream method.
Environments ==
  { [installed |-> [l \in Libs |-> TRUE], protoChat |-> TRUE, createStream |-> TRUE],
    [installed |-> [l \in Libs |-> l # "anthropic"], protoChat |-> FALSE,
     createStream |-> FALSE] }

\* No init() call has resolved yet.
NoExports == [l \in Libs |-> Null]

VARIABLES
  osmosisConfig,      \* index.ts: the configuration singleton
  defaultConfigObject, \* consts.ts: what the exported defaultConfig object holds
  aliased,            \* index.ts: osmosisConfig is the defaultConfig object itself
  enabled,            \* osmosis-cloud.ts: module-level enabled flag
  osmosisApiKey,      \* osmosis-cloud.ts: module-level API key
  initialized,        \* osmosis-cloud.ts: init() has completed
  xxhashInstance,     \* osmosis-cloud.ts: the fast hasher is loaded
  pendingInit,        \* init() calls suspended at `await xxhash()`
  env,                \* the installed client libraries and their shape
  availableLibraries, \* index.ts: library -> loaded
  originals,          \* index.ts: library -> what originalX holds
  patched,            \* library -> its prototype method is the wrapper
  isOpenAIV2Patched,  \* index.ts: the OpenAI constructor has been wrapped
  OpenAI,             \* index.ts: what the binding `OpenAI` holds
  loaders,            \* position -> loadLibraries() runs suspended there
  initRun,            \* where the loadLibraries() run of an init() call is
  exports,            \* the object the last init() call has resolved to
  call,               \* the intercepted call under observation
  consoleLog,         \* console request records that call has produced
  envelopes,          \* envelopes that call has handed to fetch, in order
  warnings,           \* console.warn kinds that call's sends have produced
  sends               \* direct sendToOsmosis() invocations under observation

cloudVars == <<enabled, osmosisApiKey, initialized, xxhashInstance, pendingInit>>
libVars ==
  <<env, availableLibraries, originals, patched, isOpenAIV2Patched, OpenAI, loaders,
    initRun, exports>>
callVars == <<call, consoleLog, envelopes, warnings, sends>>
aliasVars == <<defaultConfigObject, aliased>>
vars == <<osmosisConfig, aliasVars, cloudVars, libVars, callVars>>

\* ------------------------------------------------------------ osmosis-cloud.ts

isCloudLoggingEnabled == initialized /\ enabled

\* The first early return of sendToOsmosis: by the key alone.
DisabledKeyOnly == ~Truthy(osmosisApiKey)

\* The first early return of sendToOsmosis: if (!enabled || !osmosisApiKey).
Disabled == ~enabled \/ ~Truthy(osmosisApiKey)

\* A sendToOsmosis that does not look at `initialized`.
NotReadyNever == FALSE

\* The second early return of sendToOsmosis: if (!initialized).
NotReady == ~initialized

\* sendToOsmosis gets past its two early returns.
SendGate == enabled /\ Truthy(osmosisApiKey) /\ initialized

\* The texts of the warnings of osmosis-cloud.ts.
WarnNotInitialized == "Cloud logging not initialized"
WarnPrepare == "Failed to prepare data"
WarnSend == "Failed to send data"
WarnStatus == "API returned status "

\* A send that always makes its own id.
RequestIdAlwaysGenerated(requestId, gen) == gen

\* The correlation id of a send: the caller's, or a generated one.
RequestIdOf(requestId, gen) == IF Truthy(requestId) THEN requestId ELSE gen

\* How the synchronous part of a send can go: the POST is issued, or building
\* the body or calling fetch throws (caught inside sendToOsmosis).
NetOutcomes == {"sent", "throw"}

\* A send that awaits its POST: the reply is there when it returns.
FetchAwaited == "200"

\* fetch(...) hands back a promise that nothing awaits: when sendToOsmosis
\* returns, the POST is in flight.
Fetch == "inflight"

\* getOwnerHash(apiKey): the fast hash of the key once the hasher is loaded,
\* the first 8 hex digits of its sha256 before.  A hash is modelled by the
\* function that made it and the key it was made of.
getOwnerHash(apiKey) ==
  [hash |-> IF xxhashInstance THEN "xxhash" ELSE "sha256", key |-> apiKey]

\* An envelope handed to fetch, with what has become of its POST.
Envelope(requestId, response, status, content) ==
  [requestId |-> requestId, response |-> response, status |-> status,
   content |-> content, owner |-> getOwnerHash(osmosisApiKey), reply |-> Fetch]

\* sendToOsmosis(query, response, status) on the observed call's log `lg`
\* ([envelopes, warnings, requestId, console, threw]): the log after the
\* send, with the id the send returned.  `response` names what the response object
\* holds: "empty" {}, "data", "error", "started", "completed".
\* A sendToOsmosis without its try/catch: what is thrown goes to the caller.
SendThrowsUncaught(net) == net = "throw"

\* sendToOsmosis throws to its caller: never, the catch block takes whatever
\* the preparation of the body or the call of fetch throws.
SendThrows(net) == FALSE

\* A query in which the caller's own requestId property wins.
QueryCallerFirst(requestId, id) == IF requestId = Absent THEN id ELSE requestId

\* query: { ...query, requestId }: the id of the envelope's query is the one
\* computed above, whatever requestId property the caller's query had.
QueryRequestId(requestId, id) == id

sendToOsmosis(lg, requestId, response, status, content, net) ==
  IF Disabled THEN [lg EXCEPT !.requestId = ""]
  ELSE IF NotReady
    THEN [lg EXCEPT !.requestId = "", !.warnings = @ \cup {WarnNotInitialized}]
  ELSE LET id == RequestIdOf(requestId, GenIds[Len(lg.envelopes) + 1]) IN
       IF net = "throw"
       THEN [lg EXCEPT !.requestId = id, !.warnings = @ \cup {WarnPrepare},
                       !.threw = SendThrows(net)]
       ELSE [lg EXCEPT !.requestId = id,
                       !.envelopes = Append(@, Envelope(QueryRequestId(requestId, id),
                                                        response, status, content))]

\* ------------------------------------------------------------ logRequest

\* logRequest prints the console record.
LogRequestConsole(cfg) ==
  Truthy(cfg.enabled) /\ cfg.logDestination \in {"console", "both"}

\* logRequest sends the request alone to the cloud.
LogRequestCloud(cfg) ==
  /\ Truthy(cfg.enabled)
  /\ cfg.logDestination \in {"cloud", "both"}
  /\ isCloudLoggingEnabled

logRequest(lg, cfg, net) ==
  LET printed == IF LogRequestConsole(cfg) THEN [lg EXCEPT !.console = @ + 1] ELSE lg
  IN IF LogRequestCloud(cfg)
     THEN sendToOsmosis(printed, "", "empty", StatusOK, <<>>, net)
     ELSE printed

\* The guards the wrappers put in front of their two logging phases.
OpenAIConsoleGuard(dest) == dest \in {"console", "both"}
AnthropicConsoleGuard(dest) == dest = "console"
GenerateConsoleGuard(dest) == dest \in {"console", "both"}
\* Wrappers that go to the cloud under every destination.
CloudGuardAlways(dest) == TRUE

CloudGuard(dest) == dest \in {"cloud", "both"}

ConsoleGuard(fam, dest) ==
  CASE fam = "anthropicRequest" -> AnthropicConsoleGuard(dest)
    [] fam \in GenerateFamilies -> GenerateConsoleGuard(dest)
    [] OTHER -> OpenAIConsoleGuard(dest)

\* ------------------------------------------------------------ loadLibraries

\* The next library at or after position i whose flag is set: the import the
\* run suspends at; 0 when the run has come to its end.
RECURSIVE NextImport(_, _)
NextImport(i, cfg) ==
  IF i > Len(LibOrder) THEN 0
  ELSE IF Truthy(cfg.enabledAPIs[LibOrder[i]]) THEN i
  ELSE NextImport(i + 1, cfg)

InFlight(ld) == ld[1] + ld[2] + ld[3] + ld[4]

\* A new loadLibraries() run, started under configuration cfg.
StartLoad(ld, cfg) ==
  LET p == NextImport(1, cfg) IN
  IF p = 0 THEN ld ELSE [ld EXCEPT ![p] = @ + 1]

CanStartLoad(ld, cfg) == NextImport(1, cfg) = 0 \/ InFlight(ld) < MaxLoaders

\* patchX() gets past its early return.
PatchApplies(lib, cfg, avail) == Truthy(cfg.enabledAPIs[lib]) /\ avail[lib]

\* ------------------------------------------------------------ the observed call
\* One intercepted call is observed at a time, from its start to its end,
\* with the console records and envelopes it produces.  The observation is of
\* a call whose surroundings stay as they are: a configuration or cloud
\* operation ends it.  Library loading and a call touch disjoint state, so
\* calls are observed between loads.

IdleCall ==
  [fam |-> "none", pc |-> "idle", args |-> "ok", argsSeen |-> FALSE,
   orig |-> "notcalled", hook |-> FALSE, responded |-> FALSE, result |-> "none",
   stream |-> FALSE, wrapped |-> FALSE, initialLogId |-> "", streamContent |-> <<>>,
   source |-> <<>>, yielded |-> <<>>, streamEnd |-> "none", iterations |-> 0]

Log == [envelopes |-> envelopes, warnings |-> warnings, requestId |-> "",
        console |-> consoleLog, threw |-> FALSE]
FreshLog == [envelopes |-> <<>>, warnings |-> {}, requestId |-> "", console |-> 0,
            threw |-> FALSE]

SetLog(lg) ==
  /\ envelopes' = lg.envelopes
  /\ warnings' = lg.warnings
  /\ consoleLog' = lg.console

Unobserved == call' = IdleCall /\ SetLog(FreshLog) /\ sends' = <<>>

\* ------------------------------------------------------------ osmosis-cloud.ts API

\* An init that reports itself initialized before the hasher is loaded.
CloudInitEager(apiKey) ==
  /\ osmosisApiKey' = apiKey
  /\ IF Truthy(apiKey)
     THEN pendingInit < MaxPendingInit /\ pendingInit' = pendingInit + 1
     ELSE pendingInit' = pendingInit
  /\ initialized' = (initialized \/ Truthy(apiKey))
  /\ UNCHANGED xxhashInstance

\* init(apiKey) up to its suspension at `await xxhash()`.
CloudInit(apiKey) ==
  /\ osmosisApiKey' = apiKey
  /\ IF Truthy(apiKey)
     THEN pendingInit < MaxPendingInit /\ pendingInit' = pendingInit + 1
     ELSE pendingInit' = pendingInit
  /\ UNCHANGED <<initialized, xxhashInstance>>

\* initOsmosisCloud(apiKey): the cloud module's init called directly.
OsmosisInitWith(K) ==
  \E apiKey \in K :
    /\ CloudInit(apiKey)
    /\ UNCHANGED <<osmosisConfig, aliasVars, enabled, libVars>>
    /\ Unobserved

OsmosisInit == OsmosisInitWith(ApiKeys)

\* init() after `await xxhash()`.
InitCompletes ==
  /\ pendingInit > 0
  /\ pendingInit' = pendingInit - 1
  /\ xxhashInstance' = TRUE
  /\ initialized' = TRUE

\* init() resumes after `await xxhash()`.
InitResume ==
  /\ InitCompletes
  /\ UNCHANGED <<osmosisConfig, aliasVars, enabled, osmosisApiKey, libVars>>
  /\ Unobserved

\* A disableOsmosis that also forgets that the module was initialized.
disableOsmosisForgets ==
  /\ enabled' = FALSE
  /\ initialized' = FALSE
  /\ UNCHANGED <<osmosisConfig, aliasVars, osmosisApiKey, xxhashInstance, pendingInit, libVars>>
  /\ Unobserved

disableOsmosis ==
  /\ enabled' = FALSE
  /\ UNCHANGED <<osmosisConfig, aliasVars, osmosisApiKey, initialized, xxhashInstance, pendingInit, libVars>>
  /\ Unobserved

enableOsmosis ==
  /\ enabled' = TRUE
  /\ UNCHANGED <<osmosisConfig, aliasVars, osmosisApiKey, initialized, xxhashInstance, pendingInit, libVars>>
  /\ Unobserved

\* ------------------------------------------------------------ index.ts: configuration

\* The enabledAPIs part of a partial configuration: nothing named, or every
\* library named with the same value.
NoFlags == [l \in Libs |-> Absent]
FlagPartials == {NoFlags, [l \in Libs |-> JsTrue], [l \in Libs |-> JsFalse]}

Partial(e, d, k, f) ==
  [enabled |-> e, logDestination |-> d, cloudApiKey |-> k, enabledAPIs |-> f]

\* The partial configurations configure() is called with: the empty one,
\* those with one key, and those of the documented shape with every key
\* but the API key given.
Partials ==
  {Partial(e, Absent, Absent, NoFlags) : e \in {Absent, JsTrue, JsFalse}}
  \cup {Partial(Absent, d, Absent, NoFlags) : d \in Dests}
  \cup {Partial(Absent, Absent, k, NoFlags) : k \in ApiKeys}
  \cup {Partial(Absent, Absent, Absent, f) : f \in FlagPartials}
  \cup {Partial(JsTrue, d, k, [l \in Libs |-> JsTrue]) :
          d \in Dests, k \in {Absent} \cup ApiKeys}

\* {...osmosisConfig, ...options}, then enabledAPIs merged key by key.
MergeConfig(cfg, options) ==
  [enabled |-> IF options.enabled = Absent THEN cfg.enabled ELSE options.enabled,
   logDestination |->
     IF options.logDestination = Absent THEN cfg.logDestination
     ELSE options.logDestination,
   enabledAPIs |->
     [l \in Libs |->
        IF options.enabledAPIs[l] = Absent THEN cfg.enabledAPIs[l]
        ELSE options.enabledAPIs[l]]]

\* A configure() that switches the flag on unless the destination is console.
ConfigureEnabledForced(dest, was) == dest # "console"

\* configure() switches the cloud module's flag by the partial's destination.
ConfigureEnabled(dest, was) ==
  IF dest \in {"cloud", "both"} THEN TRUE
  ELSE IF dest = "console" THEN FALSE
  ELSE was

\* A configure() that merges the options into the object it finds.
AliasedAfterAssign(was) == was

\* osmosisConfig = { ...osmosisConfig, ...options }: the singleton is a new
\* object from the first configure() on.  (It shares enabledAPIs with the
\* object it was copied from until a configure() names flags; that object is
\* only ever read.)
AliasedAfterSpread(was) == FALSE

\* What configure() does to the defaultConfig object, given the
\* configuration it ends with.
Rebind(cfg) ==
  /\ aliased' = AliasedAfterSpread(aliased)
  /\ defaultConfigObject' = IF aliased' THEN cfg ELSE defaultConfigObject

\* What an assignment to a property of osmosisConfig does to the
\* defaultConfig object, given the configuration it leaves.
WriteInPlace(cfg) ==
  /\ aliased' = aliased
  /\ defaultConfigObject' = IF aliased THEN cfg ELSE defaultConfigObject

ConfigureWith(P) ==
  \E options \in P :
    /\ osmosisConfig' = MergeConfig(osmosisConfig, options)
    /\ Rebind(osmosisConfig')
    /\ IF Truthy(options.cloudApiKey)
       THEN CloudInit(options.cloudApiKey)
       ELSE UNCHANGED <<osmosisApiKey, pendingInit, initialized, xxhashInstance>>
    /\ enabled' = ConfigureEnabled(options.logDestination, enabled)
    /\ CanStartLoad(loaders, osmosisConfig')
    /\ loaders' = StartLoad(loaders, osmosisConfig')
    /\ UNCHANGED <<env, availableLibraries, originals, patched, isOpenAIV2Patched,
                   OpenAI, initRun, exports>>
    /\ Unobserved

configure == ConfigureWith(Partials)

\* An initCloud that leaves the destination as it finds it.
InitCloudDestinationKept(dest) == dest

\* An initCloud that turns every destination into both.
InitCloudDestinationAlways(dest) == "both"

\* initCloud(apiKey)
InitCloudDestination(dest) == IF dest = "console" THEN "both" ELSE dest

InitCloudWith(K) ==
  \E apiKey \in K :
    /\ CloudInit(apiKey)
    /\ enabled' = TRUE
    /\ osmosisConfig' =
         [osmosisConfig EXCEPT !.logDestination = InitCloudDestination(@)]
    /\ WriteInPlace(osmosisConfig')
    /\ UNCHANGED libVars
    /\ Unobserved

initCloud == InitCloudWith(ApiKeys)

\* if (!originalX) originalX = X.prototype.method: what originalX holds after
\* a patch, given what it held and whether the prototype's method is the
\* wrapper already.
Capture(held, isWrapper) ==
  IF held = Null THEN (IF isWrapper THEN "wrapper" ELSE "original") ELSE held

\* The binding `OpenAI` after the import of openai has resumed: the module's
\* class is assigned to it, and patchOpenAI puts the wrapping constructor in
\* its place if it gets past its early return and the constructor has not
\* been wrapped before.
OpenAIAfterImport(applies, wasPatched, protoChat) ==
  IF applies /\ ~wasPatched /\ protoChat THEN "wrapping" ELSE "original"

\* The import at position i has settled: on success the binding is assigned,
\* the library is marked available and patched.
ImportSettles(i) ==
  LET lib == LibOrder[i]
      avail == IF env.installed[lib]
               THEN [availableLibraries EXCEPT ![lib] = TRUE]
               ELSE availableLibraries
      applies == env.installed[lib] /\ PatchApplies(lib, osmosisConfig, avail)
  IN /\ availableLibraries' = avail
     /\ originals' = IF applies
                     THEN [originals EXCEPT ![lib] = Capture(@, patched[lib])]
                     ELSE originals
     /\ patched' = IF applies THEN [patched EXCEPT ![lib] = TRUE] ELSE patched
     /\ isOpenAIV2Patched' =
          (isOpenAIV2Patched \/ (applies /\ lib = "openai" /\ env.protoChat))
     /\ OpenAI' = IF lib = "openai" /\ env.installed[lib]
                  THEN OpenAIAfterImport(applies, isOpenAIV2Patched, env.protoChat)
                  ELSE OpenAI

\* A loadLibraries() whose failed import ends the run.
AfterImportFailStops(i, cfg, ok) == IF ok THEN NextImport(i + 1, cfg) ELSE 0

\* Where a loadLibraries() run goes after the import at position i has
\* settled: each import has its own try/catch, so the run goes on to the next
\* library whose flag is set whether the import succeeded (ok) or not.
AfterImport(i, cfg, ok) == NextImport(i + 1, cfg)

\* A loadLibraries() run resumes after the import at position i: on success
\* the library is marked available and patched, then the run goes on to its
\* next import.
ImportResumes ==
  \E i \in 1..Len(LibOrder) :
    LET next == AfterImport(i, osmosisConfig, env.installed[LibOrder[i]])
        left == [loaders EXCEPT ![i] = @ - 1]
    IN /\ loaders[i] > 0
       /\ ImportSettles(i)
       /\ loaders' = IF next = 0 THEN left ELSE [left EXCEPT ![next] = @ + 1]
       /\ UNCHANGED <<osmosisConfig, aliasVars, cloudVars, env, initRun, exports>>
       /\ Unobserved

\* ------------------------------------------------------------ index.ts: the wrappers

CanCall == call.pc \in {"idle", "done"} /\ InFlight(loaders) = 0

NewCall(fam) == [IdleCall EXCEPT !.fam = fam, !.pc = "pending", !.orig = "pending"]

Dest == osmosisConfig.logDestination

\* A request wrapper is through when its options callback and its response
\* handlers have run and the original has settled.
RequestPc(c) ==
  IF c.argsSeen /\ c.orig # "pending" /\ (~c.hook \/ c.responded)
  THEN "done" ELSE "pending"

\* OpenAI.prototype.request / Anthropic.prototype.request, the synchronous
\* part: the original is called with the caller's arguments and its promise
\* is returned; the response handlers are attached under CloudGuard.
\* args: the options resolve to an options object ("ok"), or reject or
\* resolve to something that is none ("bad").
CallRequest ==
  \E fam \in RequestFamilies, args \in {"ok", "bad"} :
    /\ CanCall
    /\ patched[LibOf(fam)]
    /\ call' = [NewCall(fam) EXCEPT !.args = args, !.hook = CloudGuard(Dest)]
    /\ SetLog(FreshLog)
    /\ sends' = <<>>
    /\ UNCHANGED <<osmosisConfig, aliasVars, cloudVars, libVars>>

\* resolvedOptionsPromise.then(...).catch(...): the request phase.
RequestOptionsSettle ==
  \E net \in NetOutcomes :
    /\ call.fam \in RequestFamilies
    /\ call.pc = "pending"
    /\ ~call.argsSeen
    /\ LET c == [call EXCEPT !.argsSeen = TRUE] IN
       call' = [c EXCEPT !.pc = RequestPc(c)]
    /\ SetLog(IF call.args = "ok" /\ ConsoleGuard(call.fam, Dest)
              THEN logRequest(Log, osmosisConfig, net)
              ELSE Log)
    /\ UNCHANGED <<osmosisConfig, aliasVars, cloudVars, libVars, sends>>

\* The original's promise settles; it is the promise the caller holds.
RequestOriginalSettles ==
  \E outcome \in {"ok", "err"} :
    /\ call.fam \in RequestFamilies
    /\ call.pc = "pending"
    /\ call.orig = "pending"
    /\ LET c == [call EXCEPT !.orig = outcome, !.result = outcome] IN
       call' = [c EXCEPT !.pc = RequestPc(c)]
    /\ UNCHANGED <<osmosisConfig, aliasVars, cloudVars, libVars, sends, consoleLog, envelopes, warnings>>

\* What Promise.all([options, response]).then(...).catch(() => {}) sends.
RequestResponseSends(args, orig) == args = "ok" /\ orig = "ok"

\* Response handlers that wait for the original alone.
ResponseAwaitsOriginalOnly(c) == TRUE

\* Promise.all([resolvedOptionsPromise, responsePromise]) settles after
\* resolvedOptionsPromise, and the request-phase callback was attached to that
\* promise first: it has run by the time the response handlers do.
ResponseAwaitsOptions(c) == c.argsSeen

RequestResponsePhase ==
  \E net \in NetOutcomes :
    /\ call.fam \in RequestFamilies
    /\ call.pc = "pending"
    /\ call.hook /\ ~call.responded
    /\ ResponseAwaitsOptions(call) /\ call.orig # "pending"
    /\ call' = [call EXCEPT !.responded = TRUE, !.pc = "done"]
    /\ SetLog(IF RequestResponseSends(call.args, call.orig)
              THEN sendToOsmosis(Log, "", "data", StatusOK, <<>>, net)
              ELSE Log)
    /\ UNCHANGED <<osmosisConfig, aliasVars, cloudVars, libVars, sends>>

\* instance.chat.completions.create(params), up to `await originalCreate`.
CallCreate ==
  \E stream \in BOOLEAN, net \in NetOutcomes :
    /\ CanCall
    /\ isOpenAIV2Patched
    /\ call' = [NewCall("openaiCreate") EXCEPT !.stream = stream, !.argsSeen = TRUE]
    /\ SetLog(IF OpenAIConsoleGuard(Dest)
              THEN logRequest(FreshLog, osmosisConfig, net)
              ELSE FreshLog)
    /\ sends' = <<>>
    /\ UNCHANGED <<osmosisConfig, aliasVars, cloudVars, libVars>>

\* create sends the response of a call that succeeded.
CreateSendsResponse(stream, dest) == ~stream /\ CloudGuard(dest)

\* originalCreate settles: the try/catch around the await.  With
\* stream: true the value it resolves to is the stream, handed on as it is.
CreateSettles ==
  \E outcome \in {"ok", "err"}, net \in NetOutcomes :
    /\ call.fam = "openaiCreate"
    /\ call.pc = "pending"
    /\ call' =
         IF outcome = "ok" /\ call.stream
         THEN [call EXCEPT !.orig = "ok", !.result = "stream", !.pc = "streaming"]
         ELSE [call EXCEPT !.orig = outcome, !.result = outcome, !.pc = "done"]
    /\ SetLog(IF outcome = "ok"
              THEN IF CreateSendsResponse(call.stream, Dest)
                   THEN sendToOsmosis(Log, "", "data", StatusOK, <<>>, net)
                   ELSE Log
              ELSE IF CloudGuard(Dest)
                   THEN sendToOsmosis(Log, "", "error", StatusError, <<>>, net)
                   ELSE Log)
    /\ UNCHANGED <<osmosisConfig, aliasVars, cloudVars, libVars, sends>>

\* instance.chat.completions.create.stream(params), up to the await of the
\* original stream method.
CallStream ==
  \E net1 \in NetOutcomes, net2 \in NetOutcomes :
    /\ CanCall
    /\ isOpenAIV2Patched /\ env.createStream
    /\ LET logged == IF OpenAIConsoleGuard(Dest)
                     THEN logRequest(FreshLog, osmosisConfig, net1)
                     ELSE FreshLog
           started == IF CloudGuard(Dest)
                      THEN sendToOsmosis(logged, "", "started", StatusOK, <<>>, net2)
                      ELSE [logged EXCEPT !.requestId = ""]
       IN /\ call' = [NewCall("openaiStream") EXCEPT
                        !.stream = TRUE, !.argsSeen = TRUE,
                        !.initialLogId = started.requestId]
          /\ SetLog(started)
    /\ sends' = <<>>
    /\ UNCHANGED <<osmosisConfig, aliasVars, cloudVars, libVars>>

\* The wrapper returns the wrapping stream, not the original one.
WrapsStream(dest) == CloudGuard(dest)

\* The original stream method settles: an error goes to the caller, a stream
\* goes to the caller as it is or wrapped.
StreamOpens ==
  \E outcome \in {"ok", "err"} :
    /\ call.fam = "openaiStream"
    /\ call.pc = "pending"
    /\ call' =
         IF outcome = "ok"
         THEN [call EXCEPT !.orig = "ok", !.result = "stream", !.pc = "streaming",
                           !.wrapped = WrapsStream(Dest)]
         ELSE [call EXCEPT !.orig = "err", !.result = "err", !.pc = "done"]
    /\ UNCHANGED <<osmosisConfig, aliasVars, cloudVars, libVars, sends, consoleLog, envelopes, warnings>>

\* chunk.choices[0]?.delta?.content || ""
ChunkContent(chunk) ==
  IF Len(chunk.choices) = 0 THEN <<>> ELSE chunk.choices[1].content

\* streamContent += content
Accumulate(streamContent, chunk) == streamContent \o ChunkContent(chunk)

\* A wrapper that passes on only the chunks it takes text from.
YieldTextOnly(chunk) == IF ChunkContent(chunk) = <<>> THEN <<>> ELSE <<chunk>>

\* yield chunk
Yield(chunk) == <<chunk>>

\* A finally block that sends the completion whatever was accumulated.
FlushAlways(streamContent) == TRUE

\* The finally block sends the completion.
FlushNeeded(streamContent) == Len(streamContent) > 0

\* The consumer takes the next chunk of the wrapping stream, which takes it
\* from the original stream and accumulates its text on the way.
StreamNext ==
  \E chunk \in Chunks :
    /\ call.pc = "streaming"
    /\ call.wrapped
    /\ Len(call.source) < MaxChunks
    /\ call' = [call EXCEPT !.source = Append(@, chunk),
                            !.streamContent = Accumulate(@, chunk),
                            !.yielded = @ \o Yield(chunk)]
    /\ UNCHANGED <<osmosisConfig, aliasVars, cloudVars, libVars, sends, consoleLog, envelopes, warnings>>

\* What the consumer has taken from an original stream that went to it as
\* it is, when the iteration ends.
RawStreams == {<<>>} \cup {<<chunk>> : chunk \in Chunks}

\* The iteration ends: the original stream is exhausted, it throws, or the
\* consumer leaves its loop after a chunk.  The wrapping stream's finally
\* block runs in each case.  An original stream that went to the caller as
\* it is is consumed without the wrapper taking part.
StreamEnds ==
  \E how \in {"exhausted", "error", "stopped"}, net \in NetOutcomes,
     raw \in RawStreams :
    /\ call.pc = "streaming"
    /\ call.wrapped => raw = <<>>
    /\ how = "stopped" => Len(call.source \o raw) >= 1
    /\ call' = [call EXCEPT !.streamEnd = how, !.pc = "done",
                            !.source = @ \o raw, !.yielded = @ \o raw,
                            !.result = IF how = "error" THEN "streamErr" ELSE @]
    /\ SetLog(IF call.wrapped /\ FlushNeeded(call.streamContent)
              THEN sendToOsmosis(Log, call.initialLogId, "completed", StatusOK,
                                 call.streamContent, net)
              ELSE Log)
    /\ UNCHANGED <<osmosisConfig, aliasVars, cloudVars, libVars, sends>>

\* ChatOpenAI.prototype._generate / ChatAnthropic.prototype._generate, up to
\* the await of the original.  args: the message list can be mapped ("ok")
\* or messages.map throws ("bad"), before anything else has run.
CallGenerate ==
  \E fam \in GenerateFamilies, args \in {"ok", "bad"}, net \in NetOutcomes :
    /\ CanCall
    /\ patched[LibOf(fam)]
    /\ IF args = "bad"
       THEN /\ call' = [IdleCall EXCEPT !.fam = fam, !.pc = "done", !.args = "bad",
                                        !.argsSeen = TRUE, !.result = "wrapperErr"]
            /\ SetLog(FreshLog)
       ELSE /\ call' = [NewCall(fam) EXCEPT !.argsSeen = TRUE, !.hook = CloudGuard(Dest)]
            /\ SetLog(IF ConsoleGuard(fam, Dest)
                      THEN logRequest(FreshLog, osmosisConfig, net)
                      ELSE FreshLog)
    /\ sends' = <<>>
    /\ UNCHANGED <<osmosisConfig, aliasVars, cloudVars, libVars>>

\* The original _generate settles: inside the try/catch of the cloud branch,
\* or returned as it is.
GenerateSettles ==
  \E outcome \in {"ok", "err"}, net \in NetOutcomes :
    /\ call.fam \in GenerateFamilies
    /\ call.pc = "pending"
    /\ call' = [call EXCEPT !.orig = outcome, !.result = outcome, !.pc = "done",
                            !.responded = call.hook]
    /\ SetLog(IF ~call.hook THEN Log
              ELSE IF outcome = "ok"
                   THEN sendToOsmosis(Log, "", "data", StatusOK, <<>>, net)
                   ELSE sendToOsmosis(Log, "", "error", StatusError, <<>>, net))
    /\ UNCHANGED <<osmosisConfig, aliasVars, cloudVars, libVars, sends>>

\* ------------------------------------------------------------ the system

\* The module has been evaluated: the configuration is the default one, the
\* cloud module is untouched, and the load started at import is suspended
\* at its first import.
Init ==
  /\ osmosisConfig = defaultConfig
  /\ defaultConfigObject = defaultConfig
  /\ aliased = TRUE
  /\ enabled = TRUE
  /\ osmosisApiKey = Null
  /\ initialized = FALSE
  /\ xxhashInstance = FALSE
  /\ pendingInit = 0
  /\ env \in Environments
  /\ availableLibraries = [l \in Libs |-> FALSE]
  /\ originals = [l \in Libs |-> Null]
  /\ patched = [l \in Libs |-> FALSE]
  /\ isOpenAIV2Patched = FALSE
  /\ OpenAI = Undefined
  /\ initRun = 0
  /\ exports = NoExports
  /\ loaders = StartLoad([i \in 1..Len(LibOrder) |-> 0], defaultConfig)
  /\ call = IdleCall
  /\ consoleLog = 0
  /\ envelopes = <<>>
  /\ warnings = {}
  /\ sends = <<>>

Next ==
  \/ OsmosisInit
  \/ InitResume
  \/ disableOsmosis
  \/ enableOsmosis
  \/ configure
  \/ initCloud
  \/ ImportResumes
  \/ CallRequest
  \/ RequestOptionsSettle
  \/ RequestOriginalSettles
  \/ RequestResponsePhase
  \/ CallCreate
  \/ CreateSettles
  \/ CallStream
  \/ StreamOpens
  \/ StreamNext
  \/ StreamEnds
  \/ CallGenerate
  \/ GenerateSettles

Spec == Init /\ [][Next]_vars

\* ------------------------------------------------------------ the cloud module
\* The transport sink with its callers: sendToOsmosis called directly (it is
\* an export of osmosis-cloud.ts) and by the wrappers, the module's own
\* operations at any moment, and the replies to the POSTs.  The libraries
\* are loaded and patched; the destination is one that routes to the cloud.

\* The keys init() is called with, the empty one included.
InitKeys == ApiKeys \cup {""}

\* query.requestId of a direct call: none, the empty string, the caller's own.
QueryIds == {Absent, "", "custom-id-123"}

\* What becomes of a POST: a reply with an HTTP status, or a rejection.
ReplyOK == "200"
Replies == {ReplyOK, "400", "rejected"}

\* One direct sendToOsmosis call, with the module state it ran in.
SendRecord(requestId, net, before, after, warned) ==
  [requestId |-> requestId, net |-> net,
   enabled |-> enabled, hasKey |-> Truthy(osmosisApiKey), initialized |-> initialized,
   returned |-> after.requestId, threw |-> after.threw,
   posted |-> Len(after.envelopes) - Len(before.envelopes),
   post |-> IF Len(after.envelopes) > Len(before.envelopes)
            THEN Len(after.envelopes) ELSE 0,
   warned |-> warned]

\* sendToOsmosis(query, response) called directly.  Only a send that gets
\* past both early returns enters the try block, where alone it can throw.
DirectSend ==
  \E requestId \in QueryIds, net \in NetOutcomes :
    /\ call.pc \in {"idle", "done"}
    /\ Len(sends) < MaxSends
    /\ net = "throw" => SendGate
    /\ LET before == IF call.pc = "done" THEN FreshLog ELSE Log
           after == sendToOsmosis(before, requestId, "data", StatusOK, <<>>, net)
           quiet == [before EXCEPT !.warnings = {}]
           warned == sendToOsmosis(quiet, requestId, "data", StatusOK, <<>>, net).warnings
       IN /\ SetLog(after)
          /\ sends' = Append(sends, SendRecord(requestId, net, before, after, warned))
    /\ call' = IdleCall
    /\ UNCHANGED <<osmosisConfig, aliasVars, cloudVars, libVars>>

\* A reply that makes the sink post the envelope again.
SettleRetry(envs, i, reply) ==
  IF reply = ReplyOK THEN [envs EXCEPT ![i].reply = reply]
  ELSE Append([envs EXCEPT ![i].reply = reply], [envs[i] EXCEPT !.reply = ReplyOK])

\* The POST of envelope i settles.
Settle(envs, i, reply) == [envs EXCEPT ![i].reply = reply]

\* Handlers that say nothing about a status.
ReplyWarningsNoStatus(reply) == IF reply = "rejected" THEN {WarnSend} ELSE {}

\* .then(result => { if (result.status !== 200) warn }).catch(error => warn)
ReplyWarnings(reply) ==
  IF reply = "rejected" THEN {WarnSend}
  ELSE IF reply # ReplyOK THEN {WarnStatus \o reply}
  ELSE {}

\* A POST in flight is answered or fails; its handlers run.
PostSettles ==
  \E i \in 1..Len(envelopes), reply \in Replies :
    /\ envelopes[i].reply = "inflight"
    /\ envelopes' = Settle(envelopes, i, reply)
    /\ warnings' = warnings \cup ReplyWarnings(reply)
    /\ UNCHANGED <<osmosisConfig, aliasVars, cloudVars, libVars, call, consoleLog, sends>>

\* The module's operations, with a call or sends under observation.
ModuleInit ==
  \E apiKey \in InitKeys :
    /\ CloudInit(apiKey)
    /\ UNCHANGED <<osmosisConfig, aliasVars, enabled, libVars, callVars>>

ModuleInitResume ==
  /\ InitCompletes
  /\ UNCHANGED <<osmosisConfig, aliasVars, enabled, osmosisApiKey, libVars, callVars>>

ModuleDisable ==
  /\ enabled' = FALSE
  /\ UNCHANGED <<osmosisConfig, aliasVars, osmosisApiKey, initialized, xxhashInstance,
                 pendingInit, libVars, callVars>>

ModuleEnable ==
  /\ enabled' = TRUE
  /\ UNCHANGED <<osmosisConfig, aliasVars, osmosisApiKey, initialized, xxhashInstance,
                 pendingInit, libVars, callVars>>

\* The log destinations under which a wrapped call reaches the cloud sink.
CloudDests == {"cloud", "both"}

InitCloudSpec ==
  /\ osmosisConfig \in {[defaultConfig EXCEPT !.logDestination = d] : d \in CloudDests}
  /\ defaultConfigObject = defaultConfig
  /\ aliased = FALSE
  /\ enabled = TRUE
  /\ osmosisApiKey = Null
  /\ initialized = FALSE
  /\ xxhashInstance = FALSE
  /\ pendingInit = 0
  /\ env = [installed |-> [l \in Libs |-> TRUE], protoChat |-> TRUE,
            createStream |-> TRUE]
  /\ availableLibraries = [l \in Libs |-> TRUE]
  /\ originals = [l \in Libs |-> "original"]
  /\ patched = [l \in Libs |-> TRUE]
  /\ isOpenAIV2Patched = TRUE
  /\ OpenAI = "wrapping"
  /\ initRun = 0
  /\ exports = NoExports
  /\ loaders = [i \in 1..Len(LibOrder) |-> 0]
  /\ call = IdleCall
  /\ consoleLog = 0
  /\ envelopes = <<>>
  /\ warnings = {}
  /\ sends = <<>>

NextCloud ==
  \/ ModuleInit
  \/ ModuleInitResume
  \/ ModuleDisable
  \/ ModuleEnable
  \/ DirectSend
  \/ PostSettles
  \/ CallRequest
  \/ RequestOptionsSettle
  \/ RequestOriginalSettles
  \/ RequestResponsePhase
  \/ CallCreate
  \/ CreateSettles
  \/ StreamEnds
  \/ CallGenerate
  \/ GenerateSettles

SpecCloud == InitCloudSpec /\ [][NextCloud]_vars

\* ------------------------------------------------------------ configure on its own
\* configure() called with every shape of partial configuration that the
\* type OsmosisAIOptions admits for enabled, logDestination and enabledAPIs,
\* keys given with the value undefined included, and the loads it starts.

\* enabledAPIs: undefined.  Every read of a flag through
\* osmosisConfig.enabledAPIs?.x then gives undefined.
UndefinedFlags == [l \in Libs |-> Undefined]

\* enabledAPIs: { lib: v }
OneFlag(lib, v) == [l \in Libs |-> IF l = lib THEN v ELSE Absent]

\* configure({enabled: undefined, logDestination: undefined, enabledAPIs: undefined})
AllUndefined == Partial(Undefined, Undefined, Absent, UndefinedFlags)

ConfigPartials ==
  {Partial(e, Absent, Absent, NoFlags) : e \in {Undefined, JsTrue, JsFalse}}
  \cup {Partial(Absent, d, Absent, NoFlags) : d \in Dests \cup {Undefined}}
  \cup {Partial(Absent, Absent, Absent, f) :
          f \in {NoFlags, [l \in Libs |-> JsTrue], UndefinedFlags}
                \cup {OneFlag(lib, v) : lib \in {"openai", "anthropic"},
                                        v \in {JsTrue, JsFalse}}}
  \cup {AllUndefined}

configureAny == ConfigureWith(ConfigPartials)

NextConfig ==
  \/ configureAny
  \/ ImportResumes

SpecConfig == Init /\ [][NextConfig]_vars

\* ------------------------------------------------------------ setting up on its own
\* The operations that set the library up, called in any order and with
\* any key, the missing ones included, with no intercepted call between
\* them.  `warnings` holds what the last operation has put out with
\* console.warn.

\* The keys the cloud module's init is handed: a key, the empty string, null.
AnyKeys == ApiKeys \cup {"", Null}

WarnNoKey == "No API key provided. Cloud logging disabled."

\* init(apiKey) warns when it is given no key.
InitWarnings(apiKey) == IF Truthy(apiKey) THEN {} ELSE {WarnNoKey}

\* An operation has been called with nothing under observation; ws is what
\* it has warned.
Reported(ws) ==
  /\ call' = IdleCall
  /\ consoleLog' = 0
  /\ envelopes' = <<>>
  /\ sends' = <<>>
  /\ warnings' = ws

\* The cloud module's init(apiKey), called directly.
OsmosisInitCall(apiKey) ==
  /\ CloudInit(apiKey)
  /\ UNCHANGED <<osmosisConfig, aliasVars, enabled, libVars>>
  /\ Reported(InitWarnings(apiKey))

OsmosisInitAny == \E apiKey \in AnyKeys : OsmosisInitCall(apiKey)

\* initCloud(apiKey)
InitCloudCall(apiKey) ==
  /\ CloudInit(apiKey)
  /\ enabled' = TRUE
  /\ osmosisConfig' =
       [osmosisConfig EXCEPT !.logDestination = InitCloudDestination(@)]
  /\ WriteInPlace(osmosisConfig')
  /\ UNCHANGED libVars
  /\ Reported(InitWarnings(apiKey))

initCloudAny == \E apiKey \in AnyKeys : InitCloudCall(apiKey)

NextSetup ==
  \/ OsmosisInitAny
  \/ InitResume
  \/ disableOsmosis
  \/ enableOsmosis
  \/ configure
  \/ initCloudAny
  \/ ImportResumes

SpecSetup == Init /\ [][NextSetup]_vars

\* ------------------------------------------------------------ loading on its own
\* The loads of the client libraries: the one started when the module is
\* evaluated, those that configure() starts, and the one that init() awaits,
\* overlapping as their imports settle.

\* The position of a loadLibraries() run that has passed its last import.
LoadDone == Len(LibOrder) + 1

\* The configure calls that switch libraries on and off.
LoadPartials ==
  {Partial(Absent, Absent, Absent, f) :
     f \in FlagPartials \cup {OneFlag("openai", JsFalse), OneFlag("openai", JsTrue)}}

configureFlags == ConfigureWith(LoadPartials)

\* init() up to the first import of its `await loadLibraries()`.
InitCall ==
  /\ initRun = 0
  /\ initRun' = (IF NextImport(1, osmosisConfig) = 0 THEN LoadDone
                 ELSE NextImport(1, osmosisConfig))
  /\ UNCHANGED <<osmosisConfig, aliasVars, cloudVars, env, availableLibraries, originals, patched,
                 isOpenAIV2Patched, OpenAI, loaders, exports>>
  /\ Unobserved

\* The loadLibraries() run of init() resumes after an import.
InitImportResumes ==
  /\ initRun \in 1..Len(LibOrder)
  /\ ImportSettles(initRun)
  /\ LET next == AfterImport(initRun, osmosisConfig, env.installed[LibOrder[initRun]])
     IN initRun' = (IF next = 0 THEN LoadDone ELSE next)
  /\ UNCHANGED <<osmosisConfig, aliasVars, cloudVars, env, loaders, exports>>
  /\ Unobserved

\* The object init() builds: the binding of each library marked available.
Exports(avail, ctor) ==
  [l \in Libs |->
     IF avail[l] THEN (IF l = "openai" THEN ctor ELSE "original") ELSE Absent]

\* init() after `await loadLibraries()`: it resolves to the exports object.
InitResolves ==
  /\ initRun = LoadDone
  /\ initRun' = 0
  /\ exports' = Exports(availableLibraries, OpenAI)
  /\ UNCHANGED <<osmosisConfig, aliasVars, cloudVars, env, availableLibraries, originals, patched,
                 isOpenAIV2Patched, OpenAI, loaders>>
  /\ Unobserved

NextLoad ==
  \/ configureFlags
  \/ ImportResumes
  \/ InitCall
  \/ InitImportResumes
  \/ InitResolves

SpecLoad == Init /\ [][NextLoad]_vars

\* ------------------------------------------------------------ a stream in a changing module
\* One streaming call from its start to the end of its iterations, with
\* configure(), init, enableOsmosis and disableOsmosis and the loads running
\* between its steps.  The call, its console records and its envelopes stay
\* under observation throughout.

\* configure(options) while a call is under way.
ConfigureDuring(P) ==
  \E options \in P :
    /\ osmosisConfig' = MergeConfig(osmosisConfig, options)
    /\ Rebind(osmosisConfig')
    /\ IF Truthy(options.cloudApiKey)
       THEN CloudInit(options.cloudApiKey)
       ELSE UNCHANGED <<osmosisApiKey, pendingInit, initialized, xxhashInstance>>
    /\ enabled' = ConfigureEnabled(options.logDestination, enabled)
    /\ CanStartLoad(loaders, osmosisConfig')
    /\ loaders' = StartLoad(loaders, osmosisConfig')
    /\ UNCHANGED <<env, availableLibraries, originals, patched, isOpenAIV2Patched,
                   OpenAI, initRun, exports, callVars>>

\* The partial configurations that matter to a stream: a destination, a key.
StreamPartials ==
  {Partial(Absent, d, Absent, NoFlags) : d \in Dests}
  \cup {Partial(Absent, Absent, k, NoFlags) : k \in ApiKeys}

configureDuring == ConfigureDuring(StreamPartials)

\* A load resumes while a call is under way: the instance the call was made
\* on keeps the methods it was given at construction.
ImportResumesDuring ==
  \E i \in 1..Len(LibOrder) :
    LET next == AfterImport(i, osmosisConfig, env.installed[LibOrder[i]])
        left == [loaders EXCEPT ![i] = @ - 1]
    IN /\ loaders[i] > 0
       /\ ImportSettles(i)
       /\ loaders' = IF next = 0 THEN left ELSE [left EXCEPT ![next] = @ + 1]
       /\ UNCHANGED <<osmosisConfig, aliasVars, cloudVars, env, initRun, exports, callVars>>

\* The consumer iterates the wrapping stream once more, after it has left an
\* iteration or run it to its end: [Symbol.asyncIterator] is a generator
\* function, each call of it runs the try/finally anew over the same
\* streamContent and initialLogId.
StreamAgain ==
  /\ call.fam = "openaiStream"
  /\ call.pc = "done"
  /\ call.wrapped /\ call.streamEnd # "none"
  /\ call.iterations < MaxIterations
  /\ call' = [call EXCEPT !.pc = "streaming", !.iterations = @ + 1]
  /\ UNCHANGED <<osmosisConfig, aliasVars, cloudVars, libVars, sends, consoleLog, envelopes, warnings>>

\* The libraries are loaded and patched; nothing is configured yet.
InitStream ==
  /\ osmosisConfig = defaultConfig
  /\ defaultConfigObject = defaultConfig
  /\ aliased = TRUE
  /\ enabled = TRUE
  /\ osmosisApiKey = Null
  /\ initialized = FALSE
  /\ xxhashInstance = FALSE
  /\ pendingInit = 0
  /\ env = [installed |-> [l \in Libs |-> TRUE], protoChat |-> TRUE,
            createStream |-> TRUE]
  /\ availableLibraries = [l \in Libs |-> TRUE]
  /\ originals = [l \in Libs |-> "original"]
  /\ patched = [l \in Libs |-> TRUE]
  /\ isOpenAIV2Patched = TRUE
  /\ OpenAI = "wrapping"
  /\ initRun = 0
  /\ exports = NoExports
  /\ loaders = [i \in 1..Len(LibOrder) |-> 0]
  /\ call = IdleCall
  /\ consoleLog = 0
  /\ envelopes = <<>>
  /\ warnings = {}
  /\ sends = <<>>

NextStream ==
  \/ ModuleInit
  \/ ModuleInitResume
  \/ ModuleDisable
  \/ ModuleEnable
  \/ configureDuring
  \/ ImportResumesDuring
  \/ CallStream
  \/ StreamOpens
  \/ StreamNext
  \/ StreamEnds
  \/ StreamAgain

SpecStream == InitStream /\ [][NextStream]_vars

\* ------------------------------------------------------------ configure and initCloud on their own
\* The two operations of index.ts that set the destination and the cloud
\* module's flag, called in any order from the state the module is loaded
\* in, with the cloud inits and the loads they start; enableOsmosis and
\* disableOsmosis are reached through them alone.
NextDest ==
  \/ configure
  \/ initCloudAny
  \/ InitResume
  \/ ImportResumes

SpecDest == Init /\ [][NextDest]_vars

\* ------------------------------------------------------------ the claims

Observed == call.pc # "idle"
Finished == call.pc = "done"
ConfigEnabled == Truthy(osmosisConfig.enabled)
RemoteActive == CloudGuard(Dest)
ConsoleActive == Dest \in {"console", "both"}
NoPrepareFailure == WarnPrepare \notin warnings
NonStreaming ==
  \/ call.fam \in RequestFamilies \cup GenerateFamilies
  \/ call.fam = "openaiCreate" /\ ~call.stream
Silent == consoleLog = 0 /\ envelopes = <<>>
FamilyEnabled == Observed /\ Truthy(osmosisConfig.enabledAPIs[LibOf(call.fam)])

\* The text of a sequence of chunks: their deltas, in order.
RECURSIVE TextOf(_)
TextOf(chunks) ==
  IF chunks = <<>> THEN <<>> ELSE ChunkContent(Head(chunks)) \o TextOf(Tail(chunks))

Completions == {i \in 1..Len(envelopes) : envelopes[i].response = "completed"}

\* C1: a non-streaming intercepted call, made with logging enabled for its
\* family, produces at most one remote envelope, and never a request-only
\* envelope (one whose response is empty).
C1_ExactlyOnceForwarding ==
  (NonStreaming /\ ConfigEnabled /\ FamilyEnabled) =>
    /\ Len(envelopes) <= 1
    /\ \A i \in 1..Len(envelopes) : envelopes[i].response \in {"data", "error"}

\* C2, at logDestination cloud: when the original method of a non-streaming
\* family has failed, logging is enabled for the family and the sink takes
\* envelopes, the finished call has
\* produced exactly one envelope, holding the error message with status 500,
\* and the caller has received the original error.
C2_FailureEnvelope ==
  (/\ Finished /\ NonStreaming /\ call.orig = "err"
   /\ ConfigEnabled /\ FamilyEnabled
   /\ Dest = "cloud" /\ SendGate /\ NoPrepareFailure)
  => /\ Len(envelopes) = 1
     /\ envelopes[1].response = "error"
     /\ envelopes[1].status = StatusError
     /\ call.result = "err"

\* C3: whatever a wrapped method has delivered to its caller is what the
\* original method delivers for the same arguments: the original has been
\* called, and the wrapper has failed exactly if the original has.
C3_Transparency ==
  call.result # "none" =>
    /\ call.orig \in {"ok", "err"}
    /\ call.result # "wrapperErr"
    /\ call.result = "err" <=> call.orig = "err"

\* C4: while Configuration.enabled is false an intercepted call (of a family
\* whose own flag is true) produces no console record and no remote envelope,
\* whatever the destination and the state of the cloud module.
C4_DisabledIsSilent == (FamilyEnabled /\ ~ConfigEnabled) => Silent

\* C5: a call through a family whose enabledAPIs flag is false (with logging
\* enabled as a whole) produces no console record and no remote envelope.
C5_PerLibraryToggle == (Observed /\ ConfigEnabled /\ ~FamilyEnabled) => Silent

\* C6: with console logging active (enabled, destination console or both), a
\* call whose arguments have been resolved has produced exactly one console
\* request record, whatever the call's outcome.
C6_RequestPhaseRecord ==
  (/\ Observed /\ call.argsSeen /\ call.args = "ok"
   /\ ConfigEnabled /\ FamilyEnabled /\ ConsoleActive)
  => consoleLog = 1

\* C7: a create.stream call that yielded text and was consumed to the end,
\* with remote logging active and the sink taking envelopes, has produced
\* exactly two envelopes: 'started', then 'completed' with the deltas
\* concatenated in order, both under one correlation id.
C7_StreamTwoEnvelopes ==
  (/\ call.fam = "openaiStream" /\ Finished /\ call.streamEnd = "exhausted"
   /\ TextOf(call.source) # <<>>
   /\ ConfigEnabled /\ FamilyEnabled
   /\ RemoteActive /\ SendGate /\ NoPrepareFailure)
  => /\ Len(envelopes) = 2
     /\ envelopes[1].response = "started"
     /\ envelopes[2].response = "completed"
     /\ envelopes[2].content = TextOf(call.source)
     /\ envelopes[1].requestId = envelopes[2].requestId

\* C8: a chat.completions.create call with stream: true whose stream carried
\* text and has been consumed to the end, with remote logging active and the
\* sink taking envelopes, has produced a 'started' envelope followed by a
\* 'completed' one that holds the streamed text.
C8_CreateStreamTrue ==
  (/\ call.fam = "openaiCreate" /\ call.stream
   /\ Finished /\ call.streamEnd = "exhausted"
   /\ TextOf(call.source) # <<>>
   /\ ConfigEnabled /\ FamilyEnabled
   /\ RemoteActive /\ SendGate /\ NoPrepareFailure)
  => \E i, j \in 1..Len(envelopes) :
       /\ i < j
       /\ envelopes[i].response = "started"
       /\ envelopes[j].response = "completed"
       /\ envelopes[j].content = TextOf(call.source)

\* C9: what the wrapping stream has yielded is what the original stream has
\* produced for it: the same chunks, unchanged, in the same order, one for
\* one, the chunks without text included.
C9_ChunksPassThrough == call.wrapped => call.yielded = call.source

C9_Witness ==
  /\ call.wrapped
  /\ call.streamEnd = "stopped"
  /\ Len(call.yielded) = 2
  /\ ChunkContent(call.yielded[1]) = <<>>
  /\ ChunkContent(call.yielded[2]) # <<>>

\* C10: when a wrapping stream has ended (exhausted, left early, or by an
\* error) with logging enabled and the sink taking envelopes, one 'completed'
\* envelope holding the text of the chunks taken so far has been sent, as the
\* last envelope, if there is such text, and none if there is not; an error
\* that ended the stream has reached the consumer.
C10_CompletionOnEveryEnd ==
  (/\ call.wrapped /\ call.streamEnd # "none"
   /\ ConfigEnabled /\ SendGate /\ NoPrepareFailure)
  => /\ IF TextOf(call.source) # <<>>
        THEN /\ Completions = {Len(envelopes)}
             /\ envelopes[Len(envelopes)].content = TextOf(call.source)
        ELSE Completions = {}
     /\ call.streamEnd = "error" => call.result = "streamErr"

C10_Witness ==
  /\ call.wrapped
  /\ call.streamEnd = "error"
  /\ ConfigEnabled /\ SendGate /\ NoPrepareFailure
  /\ Completions = {Len(envelopes)}
  /\ envelopes[Len(envelopes)].content = <<"Hello", " world">>

\* ---- the cloud module's claims (SpecCloud)

SendIndexes == 1..Len(sends)
GatesOpen(snd) == snd.enabled /\ snd.hasKey /\ snd.initialized

\* The POSTs the observed direct sends have issued.
RECURSIVE PostedBy(_)
PostedBy(snds) ==
  IF snds = <<>> THEN 0 ELSE Head(snds).posted + PostedBy(Tail(snds))

\* id matches /^req_/
MatchesReq(id) == Len(id) >= 4 /\ SubSeq(id, 1, 4) = "req_"

\* A non-streaming wrapped call has given its caller the original's outcome.
OutcomeAsOriginal == (Finished /\ NonStreaming /\ call.args = "ok") => call.result = call.orig

\* C11: a sendToOsmosis call made while the enabled flag is false or no API
\* key is set (none yet, or an empty one) returns the empty string and
\* issues no POST.
C11_DisabledSendsNothing ==
  \A i \in SendIndexes :
    (~sends[i].enabled \/ ~sends[i].hasKey) =>
      sends[i].returned = "" /\ sends[i].posted = 0

C11_Witness ==
  \E i \in SendIndexes :
    /\ ~sends[i].enabled /\ sends[i].hasKey /\ sends[i].initialized
    /\ sends[i].requestId = "custom-id-123"
    /\ sends[i].returned = ""
    /\ envelopes = <<>>

\* C12: a sendToOsmosis call made with the flag true and a key set but before
\* init has completed warns 'not initialized', returns the empty string and
\* issues no POST; the record is dropped: the POSTs issued are those of the
\* sends that posted at once, also after init completes.
C12_UninitializedDropped ==
  /\ \A i \in SendIndexes :
       (sends[i].enabled /\ sends[i].hasKey /\ ~sends[i].initialized) =>
         /\ sends[i].returned = ""
         /\ sends[i].posted = 0
         /\ WarnNotInitialized \in sends[i].warned
  /\ call.pc = "idle" => Len(envelopes) = PostedBy(sends)

C12_Witness ==
  /\ \E i \in SendIndexes :
       /\ sends[i].enabled /\ sends[i].hasKey /\ ~sends[i].initialized
       /\ WarnNotInitialized \in sends[i].warned
  /\ initialized /\ enabled /\ Truthy(osmosisApiKey)
  /\ envelopes = <<>>

\* C13 as stated: for every string supplied as query.requestId, a send that
\* passes the gates returns that string and posts it in its envelope.
C13_AnyIdPassesThrough ==
  \A i \in SendIndexes :
    (GatesOpen(sends[i]) /\ sends[i].requestId # Absent) =>
      /\ sends[i].returned = sends[i].requestId
      /\ sends[i].posted = 1 => envelopes[sends[i].post].requestId = sends[i].requestId

\* C13 amended: for every non-empty string supplied as query.requestId, a
\* send that passes the gates returns that string and posts it in its
\* envelope; it generates no id of its own.
C13_NonEmptyIdPassesThrough ==
  \A i \in SendIndexes :
    (GatesOpen(sends[i]) /\ Truthy(sends[i].requestId)) =>
      /\ sends[i].returned = sends[i].requestId
      /\ sends[i].posted = 1 => envelopes[sends[i].post].requestId = sends[i].requestId

C13_Witness ==
  \E i \in SendIndexes :
    /\ GatesOpen(sends[i])
    /\ sends[i].requestId = "custom-id-123"
    /\ sends[i].posted = 1
    /\ envelopes[sends[i].post].requestId = "custom-id-123"
    /\ sends[i].returned = "custom-id-123"

\* C14 as stated: sendToOsmosis returns the empty string when the sink is
\* disabled or unconfigured (no key, not initialized), and an id matching
\* ^req_ in every other case.
C14_AlwaysReqId ==
  \A i \in SendIndexes :
    IF GatesOpen(sends[i]) THEN MatchesReq(sends[i].returned)
    ELSE sends[i].returned = ""

\* C14 amended: sendToOsmosis returns the empty string when the sink is
\* disabled or unconfigured (no key, not initialized); in every other case
\* it returns the caller's id if the query carries a non-empty one, and an
\* id matching ^req_ if it does not.
C14_ReqIdUnlessSupplied ==
  \A i \in SendIndexes :
    IF ~GatesOpen(sends[i]) THEN sends[i].returned = ""
    ELSE IF Truthy(sends[i].requestId) THEN sends[i].returned = sends[i].requestId
    ELSE MatchesReq(sends[i].returned)

C14_Witness ==
  \E i, j \in SendIndexes :
    /\ GatesOpen(sends[i]) /\ sends[i].requestId = Absent
    /\ MatchesReq(sends[i].returned)
    /\ ~GatesOpen(sends[j]) /\ sends[j].returned = ""

\* C15: when the preparation of the body or the call of fetch throws inside
\* sendToOsmosis, the send emits the warning "Failed to prepare data" and
\* throws nothing to its caller; a wrapped call gives its caller the
\* original's outcome all the same.
C15_PrepareFailureContained ==
  /\ \A i \in SendIndexes :
       (GatesOpen(sends[i]) /\ sends[i].net = "throw") =>
         WarnPrepare \in sends[i].warned /\ ~sends[i].threw
  /\ OutcomeAsOriginal

C15_Witness ==
  \E i \in SendIndexes :
    /\ GatesOpen(sends[i]) /\ sends[i].net = "throw"
    /\ sends[i].warned = {WarnPrepare}
    /\ ~sends[i].threw
    /\ sends[i].returned = "req_1"

\* The statuses other than 200 that POSTs of the observation were answered with.
Refused ==
  {envelopes[i].reply : i \in 1..Len(envelopes)} \ {"inflight", ReplyOK, "rejected"}

StatusWarnings == {WarnStatus \o reply : reply \in Replies \ {ReplyOK, "rejected"}}

\* C16: the warnings that name a status are exactly those of the replies
\* with a status other than 200, each naming its status (a reply with 200
\* gives none); a wrapped call gives its caller the original's outcome
\* whatever the reply.
C16_NonOkReplyWarns ==
  /\ warnings \cap StatusWarnings = {WarnStatus \o reply : reply \in Refused}
  /\ OutcomeAsOriginal

C16_Witness ==
  /\ Finished /\ NonStreaming /\ call.result = "ok"
  /\ Len(envelopes) = 1
  /\ envelopes[1].reply = "400"
  /\ warnings = {"API returned status 400"}

\* The POST of envelope i goes from in flight to answered or failed.
Settled(i) ==
  /\ i <= Len(envelopes) /\ i <= Len(envelopes')
  /\ envelopes[i].reply = "inflight"
  /\ envelopes'[i].reply # "inflight"

\* C17: every step that hands envelopes to fetch leaves their POSTs in
\* flight (the sender has returned without waiting), and a POST that is
\* answered or fails later changes neither what a wrapped call has given its
\* caller nor what a send has returned.
C17_PostDetached ==
  /\ [][\A i \in 1..Len(envelopes') :
          (i > Len(envelopes) \/ envelopes'[i].requestId # envelopes[i].requestId)
            => envelopes'[i].reply = "inflight"]_vars
  /\ [][(\E i \in 1..Len(envelopes) : Settled(i)) => (call' = call /\ sends' = sends)]_vars

C17_Witness ==
  /\ Finished /\ NonStreaming /\ call.result = "ok"
  /\ Len(envelopes) = 1
  /\ envelopes[1].response = "data"
  /\ envelopes[1].reply = "inflight"

\* C18: a send that passes the gates hands one envelope to fetch (none if
\* preparing it threw), and no reply or failure makes the sink post again:
\* the POSTs of the observed sends are those they issued themselves, and a
\* non-streaming wrapped call has at most its request-phase and its
\* response-phase envelope.
C18_NoRetry ==
  /\ \A i \in SendIndexes :
       GatesOpen(sends[i]) => sends[i].posted = (IF sends[i].net = "sent" THEN 1 ELSE 0)
  /\ call.pc = "idle" => Len(envelopes) = PostedBy(sends)
  /\ (call.pc # "idle" /\ NonStreaming) => Len(envelopes) <= 2

C18_Witness ==
  /\ Len(sends) = 2 /\ Len(envelopes) = 2
  /\ envelopes[1].reply = "rejected"
  /\ envelopes[2].reply = "400"

\* ---- configure's claims (SpecConfig)

\* A configure call names the flag of a library.
Names(options, l) == options.enabledAPIs[l] \in {JsTrue, JsFalse}

\* C19: in every configure call, a per-library flag that the call does not
\* name keeps the value it had before the call.
C19_UnnamedFlagsKept ==
  [][\A options \in ConfigPartials :
       ConfigureWith({options}) =>
         \A l \in Libs :
           ~Names(options, l) =>
             osmosisConfig'.enabledAPIs[l] = osmosisConfig.enabledAPIs[l]]_vars

\* The configuration has a defined enabled value, a logDestination among
\* console, cloud and both, and a defined flag for every library.
ConfigDefined ==
  /\ osmosisConfig.enabled \in {JsTrue, JsFalse}
  /\ osmosisConfig.logDestination \in Dests
  /\ \A l \in Libs : osmosisConfig.enabledAPIs[l] \in {JsTrue, JsFalse}

\* C20: a configure call with enabled, logDestination and enabledAPIs given
\* as undefined, made on a configuration with defined values, leaves the
\* configuration with defined values: the previous ones.
C20_UndefinedKeepsDefaults ==
  [][(ConfigDefined /\ ConfigureWith({AllUndefined})) =>
       (ConfigDefined' /\ osmosisConfig' = osmosisConfig)]_vars

\* ---- configuration and the cloud module (SpecSetup)

\* C21: a configure call starts the cloud module's init exactly when its
\* partial carries a cloudApiKey (the module then holds that key and one more
\* init is under way; otherwise key, pending inits and initialized flag stay),
\* and it sets the cloud module's enabled flag to true for logDestination
\* cloud or both, to false for console, and leaves it alone when the partial
\* has no logDestination.
C21_ConfigureCloudEffect ==
  [][\A options \in Partials :
       ConfigureWith({options}) =>
         /\ IF Truthy(options.cloudApiKey)
            THEN osmosisApiKey' = options.cloudApiKey /\ pendingInit' = pendingInit + 1
            ELSE osmosisApiKey' = osmosisApiKey /\ pendingInit' = pendingInit
         /\ initialized' = initialized
         /\ options.logDestination \in {"cloud", "both"} => enabled'
         /\ options.logDestination = "console" => ~enabled'
         /\ options.logDestination = Absent => enabled' = enabled]_vars

\* configure({enabled: false}) has been called on a module that was given a
\* key and switched off by configure({logDestination: "console"}).
C21_Witness ==
  /\ osmosisConfig.enabled = JsFalse
  /\ osmosisConfig.logDestination = "console"
  /\ ~enabled
  /\ osmosisApiKey \in ApiKeys

\* ---- setting up (SpecSetup)

\* C22: an initCloud(apiKey) call leaves the cloud module holding apiKey with
\* its enabled flag true, turns the destination console into both and leaves
\* any other destination and the rest of the configuration alone, and with a
\* non-empty key it starts an init; when an init completes, the module is
\* initialized and its flag untouched, so that isCloudLoggingEnabled() is
\* true as long as the flag is still the one initCloud has set.
C22_InitCloudEffect ==
  /\ [][\A apiKey \in AnyKeys :
          InitCloudCall(apiKey) =>
            /\ osmosisApiKey' = apiKey
            /\ enabled'
            /\ osmosisConfig'.logDestination =
                 (IF osmosisConfig.logDestination = "console" THEN "both"
                  ELSE osmosisConfig.logDestination)
            /\ osmosisConfig'.enabled = osmosisConfig.enabled
            /\ osmosisConfig'.enabledAPIs = osmosisConfig.enabledAPIs
            /\ Truthy(apiKey) => pendingInit' = pendingInit + 1]_vars
  /\ [][InitResume => (initialized' /\ isCloudLoggingEnabled' = enabled)]_vars

\* initCloud has been called on a console configuration and the init it
\* started has completed.
C22_Witness ==
  /\ osmosisConfig.logDestination = "both"
  /\ osmosisApiKey \in ApiKeys
  /\ pendingInit = 0
  /\ isCloudLoggingEnabled

\* C23: every call of the cloud module's init with no key (empty or null),
\* whatever the state before it, puts out the warning and leaves
\* isCloudLoggingEnabled() false.
C23_NoKeyDisables ==
  [][\A apiKey \in AnyKeys \ ApiKeys :
       OsmosisInitCall(apiKey) =>
         (WarnNoKey \in warnings' /\ ~isCloudLoggingEnabled')]_vars

\* What enableOsmosis and disableOsmosis leave alone.
FlagFrame == UNCHANGED <<osmosisApiKey, initialized, xxhashInstance, pendingInit, osmosisConfig>>

\* C24: enableOsmosis and disableOsmosis change nothing but the cloud module's
\* enabled flag, a repeated call changes nothing at all, and after each of
\* them isCloudLoggingEnabled() is (initialized and enabled): false after a
\* disable, and after an enable true exactly on an initialized module.
C24_ToggleOnlyFlag ==
  /\ [][disableOsmosis =>
          /\ FlagFrame
          /\ ~enabled' /\ ~isCloudLoggingEnabled'
          /\ ~enabled => UNCHANGED cloudVars]_vars
  /\ [][enableOsmosis =>
          /\ FlagFrame
          /\ enabled' /\ (isCloudLoggingEnabled' <=> initialized)
          /\ enabled => UNCHANGED cloudVars]_vars

\* disableOsmosis has switched off an initialized module whose destination
\* is a cloud one (configure switches the flag off only together with the
\* destination console).
C24_Witness ==
  /\ initialized /\ ~enabled
  /\ osmosisApiKey \in ApiKeys
  /\ osmosisConfig.logDestination \in {"cloud", "both"}

\* ---- the wrappers, continued (Spec)

\* C25: a call whose arguments cannot be resolved or formatted for logging
\* still has the original method invoked with them, and delivers to its
\* caller what the original delivers, in every family.
C25_ArgsFailureContained ==
  (Finished /\ call.args = "bad") =>
    /\ call.orig \in {"ok", "err"}
    /\ call.result = call.orig

\* C26: while the destination is console, an intercepted call of any family
\* hands nothing to the transport sink: no envelope goes to fetch and the
\* sink puts out no warning, whether or not the cloud module is initialized,
\* enabled and holding a key.
C26_ConsoleNeverSends ==
  (Observed /\ Dest = "console") => (envelopes = <<>> /\ warnings = {})

\* A call has been made and has come to its end under the destination
\* console, with a cloud module that would post whatever it is handed.
C26_Witness ==
  /\ Finished /\ call.result = "ok"
  /\ Dest = "console"
  /\ SendGate
  /\ ConfigEnabled /\ consoleLog = 1

\* ---- loading the libraries (SpecLoad)

\* The position a run is at after its import at position i.
RunGoesOn(i) ==
  IF NextImport(i + 1, osmosisConfig) = 0 THEN LoadDone
  ELSE NextImport(i + 1, osmosisConfig)

\* C27: a failed import marks nothing and ends nothing: the run it belongs
\* to, init()'s or one started by configure() or at module load, goes on to
\* the next library whose flag is set; only a library that is installed is
\* ever marked available; and the object init() resolves to has an entry
\* exactly for the libraries marked available, so none for a library whose
\* load fails.
C27_FailedLoadIsSkipped ==
  /\ [][\A i \in 1..Len(LibOrder) :
          (initRun = i /\ ~env.installed[LibOrder[i]] /\ InitImportResumes) =>
            /\ initRun' = RunGoesOn(i)
            /\ availableLibraries' = availableLibraries]_vars
  /\ [][\A i \in 1..Len(LibOrder) :
          (/\ loaders[i] > 0 /\ ~env.installed[LibOrder[i]] /\ ImportResumes
           /\ loaders'[i] < loaders[i]) =>
            /\ RunGoesOn(i) # LoadDone => loaders'[RunGoesOn(i)] = loaders[RunGoesOn(i)] + 1
            /\ availableLibraries' = availableLibraries]_vars
  /\ [][InitResolves =>
          \A l \in Libs : (exports'[l] # Absent) <=> availableLibraries[l]]_vars
  /\ [](\A l \in Libs : availableLibraries[l] => env.installed[l])
  /\ [](exports # NoExports => \A l \in Libs : exports[l] # Absent => env.installed[l])

\* init() has resolved where @anthropic-ai/sdk is not installed: the three
\* other libraries are in the object and patched, Anthropic is not in it.
C27_Witness ==
  /\ exports # NoExports
  /\ ~env.installed["anthropic"]
  /\ exports["anthropic"] = Absent
  /\ \A l \in Libs \ {"anthropic"} : exports[l] # Absent /\ patched[l]

\* C28: when an init() call resolves, every class in the object it resolves
\* to has the logging wrapper on its prototype's dispatch method.
C28_ExportsArePatched ==
  [][InitResolves =>
       \A l \in Libs : exports'[l] # Absent => patched[l]]_vars

\* The wrappers a call through the prototype method of a library passes
\* before it reaches the library's own method: none when the method is not
\* patched, the one wrapper when originalX holds the library's method, and
\* one more when what originalX holds is itself a wrapper.  Each wrapper
\* passed logs the request once and calls on once.
Layers(l) ==
  IF ~patched[l] THEN 0
  ELSE IF originals[l] = "original" THEN 1
  ELSE 2

\* The wrappers the create of a new instance passes, the instance being
\* built through the binding `OpenAI`: the wrapping constructor patches the
\* create of each instance it builds, the library's own class patches none.
CreateLayers(ctor) == IF ctor = "wrapping" THEN 1 ELSE 0

\* C29: installing a patch again changes nothing.  originalX is assigned by
\* the first installation only and holds the library's own method, never a
\* wrapper, so that a call through a patched prototype method passes exactly
\* one wrapper; and once the constructor has been wrapped, every import that
\* settles afterwards leaves a new instance's create with exactly one
\* wrapper too.
C29_InstallIdempotent ==
  /\ [](\A l \in Libs : patched[l] => (originals[l] = "original" /\ Layers(l) = 1))
  /\ [][\A l \in Libs : originals[l] # Null => originals'[l] = originals[l]]_vars
  /\ [][(isOpenAIV2Patched /\ CreateLayers(OpenAI) = 1) => CreateLayers(OpenAI') = 1]_vars

\* C30: from the moment the constructor has been wrapped, the binding
\* `OpenAI` holds the wrapping constructor, and so does the object of every
\* init() call that resolves from then on: an instance built through either
\* has its create patched.
C30_ConstructorStaysWrapped ==
  /\ [](isOpenAIV2Patched => OpenAI = "wrapping")
  /\ [][(InitResolves /\ isOpenAIV2Patched) => exports'["openai"] = "wrapping"]_vars

\* ---- the envelopes (SpecCloud)

\* C31: the envelopes sent under one API key all carry the same owner, and
\* that owner is the fast hash of the key: the sha256 fallback is never used
\* for an envelope that is sent, so the two never meet under one key.
C31_OneOwnerPerKey ==
  /\ \A i, j \in 1..Len(envelopes) :
       envelopes[i].owner.key = envelopes[j].owner.key =>
         envelopes[i].owner = envelopes[j].owner
  /\ \A i \in 1..Len(envelopes) : envelopes[i].owner.hash = "xxhash"

\* Two direct sends have each posted an envelope under the key, and init has
\* been called again in between or afterwards.
C31_Witness ==
  /\ Len(sends) = 2 /\ Len(envelopes) = 2
  /\ envelopes[1].owner.key \in ApiKeys
  /\ envelopes[1].owner = envelopes[2].owner
  /\ pendingInit > 0

\* C32: every envelope built by a send has a non-empty correlation id, and
\* it is the id that send returned; a send given no id (or an empty one)
\* puts and returns a generated req_ id.
C32_EnvelopeIdIsReturned ==
  \A i \in SendIndexes :
    sends[i].post > 0 =>
      /\ envelopes[sends[i].post].requestId = sends[i].returned
      /\ sends[i].returned # ""
      /\ sends[i].returned \notin {Absent, Null, Undefined}
      /\ ~Truthy(sends[i].requestId) => MatchesReq(sends[i].returned)

\* One send with an id of its own and one with an empty id have each built
\* an envelope.
C32_Witness ==
  /\ Len(sends) = 2
  /\ sends[1].post > 0 /\ sends[1].requestId = ""
  /\ sends[2].post > 0 /\ Truthy(sends[2].requestId)

\* ---- the order of the two phases (SpecCloud)

\* The envelopes of the observed call's response phase.
ResponsePhase == {i \in 1..Len(envelopes) : envelopes[i].response \in {"data", "error"}}

\* The observed call prints a console record in its request phase.
PrintsRecord ==
  /\ call.args = "ok"
  /\ ConsoleGuard(call.fam, Dest)
  /\ LogRequestConsole(osmosisConfig)

\* C33: within one intercepted call the console record of the request phase
\* is out before the envelope of the response phase is sent, however the
\* resolution of the arguments and the completion of the original interleave:
\* no state holds the call's response envelope without its console record.
C33_RequestLogFirst ==
  (Observed /\ call.fam # "none" /\ PrintsRecord /\ ResponsePhase # {}) => consoleLog >= 1

\* A request-family call under "both" has printed its record and then posted
\* its response envelope.
C33_Witness ==
  /\ Finished /\ call.fam \in RequestFamilies /\ Dest = "both"
  /\ PrintsRecord /\ consoleLog = 1
  /\ ResponsePhase # {}

\* ---- streams (SpecStream)

\* The envelopes of the observed stream that report its start, its completion.
StartedAt == {i \in 1..Len(envelopes) : envelopes[i].response = "started"}
CompletedAt == {i \in 1..Len(envelopes) : envelopes[i].response = "completed"}

\* C34: whatever configure(), the completion of init and enable/disable do
\* between the steps of a streaming call, each 'completed' envelope sent
\* comes after a 'started' envelope of the same call with the same id.
C34_StartedBeforeCompleted ==
  \A j \in CompletedAt :
    \E i \in StartedAt : i < j /\ envelopes[i].requestId = envelopes[j].requestId

\* C35: one streaming call sends at most one 'completed' envelope, however
\* often its stream is iterated.
C35_OneCompletion == Cardinality(CompletedAt) <= 1

\* ---- isCloudLoggingEnabled and the sink (SpecCloud)

\* C36: in every state that init (with any key, again, overlapping),
\* enableOsmosis and disableOsmosis lead to, a send made while
\* isCloudLoggingEnabled() is true issues a POST and returns a non-empty id.
C36_EnabledMeansSent ==
  \A i \in SendIndexes :
    (sends[i].initialized /\ sends[i].enabled /\ sends[i].net = "sent") =>
      (sends[i].posted = 1 /\ sends[i].returned # "")

\* ---- the destination and the flag (SpecDest)

\* C37: after any sequence of configure() calls (with a destination of
\* console, cloud or both, or none) and initCloud() calls from the defaults,
\* the cloud module's enabled flag is false exactly when the configured
\* destination is console.
C37_FlagFollowsDestination == (~enabled) <=> (Dest = "console")

\* initCloud, here called without a key, has just set the flag under a
\* destination of both.
C37_Witness == enabled /\ Dest = "both" /\ WarnNoKey \in warnings

\* ---- the built-in defaults (SpecDest)

\* C38: no sequence of configure() and initCloud() calls changes what the
\* built-in defaultConfig object holds, although the singleton starts as
\* that very object and initCloud writes logDestination in place.
C38_DefaultsUntouched ==
  /\ defaultConfigObject = defaultConfig
  /\ aliased => osmosisConfig = defaultConfigObject

\* initCloud has been called, here without a key, on a singleton that is
\* still the defaultConfig object.
C38_Witness == aliased /\ WarnNoKey \in warnings /\ osmosisApiKey \notin ApiKeys

====
